---- MODULE Spec2Model ----
(***************************************************************************)
(* Model of bert_helpers.py: the early-stopping training loop (train,      *)
(* training_step, validation_step), the evaluation routine with Monte      *)
(* Carlo dropout (evaluate, turn_on_dropout, update_confusion_matrix) and  *)
(* the append-only log writer (write_to_file).                             *)
(*                                                                         *)
(* The network itself, the optimizer's arithmetic and the data are         *)
(* external: a forward pass yields logits drawn from a small set, a        *)
(* training pass yields a parameter state never seen before, and metrics   *)
(* are drawn from small sets.                                              *)
(***************************************************************************)
EXTENDS Integers, Sequences, FiniteSets, TLC

VARIABLES
    \* run configuration and the driver
    pretrained,          \* the pretrained flag passed to train / evaluate
    dropout,             \* the dropout rate passed to train / evaluate (percent)
    T,                   \* evaluate's T argument (None when not supplied)
    callsLeft,           \* how many more calls the driver makes
    pc,                  \* position in train / evaluate
    \* the model and the optimizer
    params,              \* model.state_dict(): an opaque parameter state
    training,            \* module name -> its .training flag
    optSteps,            \* optimizer.state: training passes accumulated by step()
    optAttr,             \* the attribute optimizer.params
    \* the file system
    ckpt,                \* saves/model_early_stopping_<i>.pkl -> content
    files,               \* <<folder, file>> -> content, a sequence of tokens
    \* locals of train
    epochs, epoch, val_losses, cur,
    \* bookkeeping about the current train call
    nextId,              \* the next parameter state a training pass produces
    written,             \* checkpoint index -> times written in this call
    valParams,           \* the parameter state each validation pass measured
    history,             \* per train call so far, the metrics of its logged epochs
    \* locals of evaluate
    nBatches, batchIdx, labels,
    confusion_matrix, confusion_matrix_mcd,
    average_acc, average_acc_mcd,
    samples,             \* the logits of the MCD passes of the current batch
    predictions_mcd,     \* the last majority vote
    \* bookkeeping about the current evaluate call
    fwd,                 \* kind and training flags of the last forward pass
    turnOnCalls,         \* calls of turn_on_dropout in this call
    mcdPasses,           \* MCD forward passes in this call
    \* update_confusion_matrix on its own
    cmStart, cmB1, cmB2, cmR1, cmR12, cmR21, cmPc

cfgVars   == <<pretrained, dropout, T>>
modelVars == <<params, training, optSteps, optAttr>>
trainVars == <<epochs, epoch, val_losses, cur, nextId, written, valParams, history>>
evalVars  == <<nBatches, batchIdx, labels, confusion_matrix, confusion_matrix_mcd,
               average_acc, average_acc_mcd, samples, predictions_mcd,
               fwd, turnOnCalls, mcdPasses>>
cmVars    == <<cmStart, cmB1, cmB2, cmR1, cmR12, cmR21, cmPc>>
vars      == <<cfgVars, callsLeft, pc, modelVars, ckpt, files, trainVars, evalVars, cmVars>>

-----------------------------------------------------------------------------
(* Bounds and constants *)

NumLabels == 3
MaxEpochs == 3
MaxLoss == 2
MaxBatches == 2
MaxT == 2
MaxVoteT == 3
MaxVoteBatch == 2
MaxVoteCells == 6
MaxCalls == 2
MaxLogEpochs == 2
MaxStart == 1
MaxSamples == 2

Classes == 0 .. (NumLabels - 1)
\* T when evaluate is called without it
None == -1
\* a checkpoint path with no file, and a file left by an earlier program run
NoFile == -1
Stale == -2

Dropouts == {0, 10}
Bools == {TRUE, FALSE}

-----------------------------------------------------------------------------
(* Helpers *)

RECURSIVE SumSeq(_)
SumSeq(s) == IF s = <<>> THEN 0 ELSE Head(s) + SumSeq(Tail(s))

IsPrefix(s, t) == Len(s) <= Len(t) /\ SubSeq(t, 1, Len(s)) = s

RECURSIVE Flatten(_)
Flatten(ss) == IF ss = <<>> THEN <<>> ELSE Head(ss) \o Flatten(Tail(ss))

\* np.argmin over a non-empty list: the 0-based index of the first minimum
ArgMinLast(s) ==
    (CHOOSE i \in 1 .. Len(s) :
        /\ \A j \in 1 .. Len(s) : s[i] <= s[j]
        /\ \A j \in (i + 1) .. Len(s) : s[j] > s[i]) - 1

ArgMin(s) ==
    (CHOOSE i \in 1 .. Len(s) :
        /\ \A j \in 1 .. Len(s) : s[i] <= s[j]
        /\ \A j \in 1 .. (i - 1) : s[j] > s[i]) - 1

-----------------------------------------------------------------------------
(* write_to_file *)

\* a text is a sequence of tokens: a space, a newline, a number, a matrix row
SP == [k |-> "sp", v |-> <<>>]
NL == [k |-> "nl", v |-> <<>>]
Hash == [k |-> "#", v |-> <<>>]

\* str(value): the text of a number, one token
Str(v) == <<[k |-> "num", v |-> <<v>>]>>

\* the text written for one call: the text, then a space unless it holds "\n"
WrittenText(text) ==
    IF \E i \in 1 .. Len(text) : text[i] = NL THEN text ELSE text \o <<SP>>

\* open(path, "a") then write: the content with the text after it
OpenTruncate(content, text) == text

OpenAppend(content, text) == content \o text

\* evaluation_data/<pretrained|untrained>/<normal|dropout>
Folder(pre, drop) ==
    <<IF pre THEN "pretrained" ELSE "untrained",
      IF drop = 0 THEN "normal" ELSE "dropout">>

Folders == {Folder(p, d) : p \in Bools, d \in Dropouts}

TrainLogs == {"train_accuracy.txt", "train_loss.txt", "val_accuracy.txt", "val_loss.txt"}
EvalLogs == {"test_accuracy.txt", "confusion_matrix.txt"}
McdLogs == {"test_accuracy_mcd.txt", "confusion_matrix_mcd.txt"}
Paths == Folders \X (TrainLogs \cup EvalLogs \cup McdLogs)

NoFiles == [p \in Paths |-> <<>>]

write_to_file(fs, folder, file, text) ==
    [fs EXCEPT ![<<folder, file>>] = OpenAppend(@, WrittenText(text))]

-----------------------------------------------------------------------------
(* The model's sub-layers *)

ClsDropout == <<"D", "r", "o", "p", "o", "u", "t">>
ClsLinear == <<"L", "i", "n", "e", "a", "r">>
ClsLayerNorm == <<"L", "a", "y", "e", "r", "N", "o", "r", "m">>

\* the modules of the classifier: name -> class name, applies dropout or not
Modules ==
    [embLayerNorm |-> [cls |-> ClsLayerNorm, isDropout |-> FALSE],
     embDropout   |-> [cls |-> ClsDropout, isDropout |-> TRUE],
     dropout      |-> [cls |-> ClsDropout, isDropout |-> TRUE],
     classifier   |-> [cls |-> ClsLinear, isDropout |-> FALSE]]

Layers == DOMAIN Modules

\* str.startswith
StartsWith(s, prefix) == IsPrefix(prefix, s)

\* model.train() / model.eval(): every module's flag
SetMode(flag) == [l \in Layers |-> flag]

TurnOnAll(tr) == [l \in Layers |-> TRUE]

\* turn_on_dropout
TurnOnDropout(tr) ==
    [l \in Layers |->
        IF StartsWith(Modules[l].cls, ClsDropout) THEN TRUE ELSE tr[l]]

-----------------------------------------------------------------------------
(* train *)

CkptIdx == 0 .. (MaxEpochs - 1)

ZeroCur == [train_acc |-> 0, train_loss |-> 0, val_acc |-> 0, val_loss |-> 0]
NoWrites == [i \in CkptIdx |-> 0]

\* what a training pass and a validation pass can report
TrainOuts == {[acc |-> 50, loss |-> 1], [acc |-> 100, loss |-> 0]}
OneTrainOut == {[acc |-> 50, loss |-> 1]}
ValOuts(maxLoss) == {[acc |-> 50, loss |-> l] : l \in 0 .. maxLoss}
TwoValOuts == {[acc |-> 90, loss |-> 0], [acc |-> 40, loss |-> 1]}

Returned == {"idle", "t_done", "e_done"}

\* train(model, ..., optimizer, ..., epochs, pretrained, dropout) is entered
TrainCall(Es) ==
    /\ pc \in Returned
    /\ callsLeft > 0
    /\ \E E \in Es : epochs' = E
    /\ callsLeft' = callsLeft - 1
    /\ epoch' = 0
    /\ val_losses' = <<>>
    /\ cur' = ZeroCur
    /\ written' = NoWrites
    /\ valParams' = <<>>
    /\ history' = Append(history, <<>>)
    /\ pc' = "t_save"
    /\ UNCHANGED <<cfgVars, modelVars, ckpt, files, nextId, evalVars, cmVars>>

\* the index in the checkpoint's file name: str(epoch)
CkptIndexFixed(e) == 0

CkptIndex(e) == e

\* torch.save(model.state_dict(), .../model_early_stopping_<epoch>.pkl)
SaveCheckpoint ==
    /\ pc = "t_save"
    /\ ckpt' = [ckpt EXCEPT ![CkptIndex(epoch)] = params]
    /\ written' = [written EXCEPT ![CkptIndex(epoch)] = @ + 1]
    /\ pc' = "t_train"
    /\ UNCHANGED <<cfgVars, callsLeft, modelVars, files, epochs, epoch, val_losses, cur,
                   nextId, valParams, history, evalVars, cmVars>>

\* training_step: model.train(), then per batch zero_grad, forward, backward,
\* optimizer.step(); the pass leaves a new parameter state
TrainingStep(outs) ==
    /\ pc = "t_train"
    /\ training' = SetMode(TRUE)
    /\ params' = nextId
    /\ nextId' = nextId + 1
    /\ optSteps' = optSteps + 1
    /\ \E o \in outs : cur' = [cur EXCEPT !.train_acc = o.acc, !.train_loss = o.loss]
    /\ pc' = "t_val"
    /\ UNCHANGED <<cfgVars, callsLeft, optAttr, ckpt, files, epochs, epoch, val_losses,
                   written, valParams, history, evalVars, cmVars>>

\* validation_step: model.eval(), forward passes only; val_losses.append(val_loss)
ValidationStep(outs) ==
    /\ pc = "t_val"
    /\ training' = SetMode(FALSE)
    /\ \E o \in outs :
          /\ cur' = [cur EXCEPT !.val_acc = o.acc, !.val_loss = o.loss]
          /\ val_losses' = Append(val_losses, o.loss)
    /\ valParams' = Append(valParams, params)
    /\ pc' = "t_log"
    /\ UNCHANGED <<cfgVars, callsLeft, params, optSteps, optAttr, ckpt, files, epochs, epoch,
                   nextId, written, history, evalVars, cmVars>>

\* the four write_to_file calls of an epoch, and the loop's next iteration
WriteEpochLogs ==
    /\ pc = "t_log"
    /\ LET folder == Folder(pretrained, dropout)
           f1 == write_to_file(files, folder, "train_accuracy.txt", Str(cur.train_acc))
           f2 == write_to_file(f1, folder, "train_loss.txt", Str(cur.train_loss))
           f3 == write_to_file(f2, folder, "val_accuracy.txt", Str(cur.val_acc))
       IN  files' = write_to_file(f3, folder, "val_loss.txt", Str(cur.val_loss))
    /\ history' = [history EXCEPT ![Len(history)] = Append(@, cur)]
    /\ epoch' = epoch + 1
    /\ pc' = IF epoch + 1 < epochs THEN "t_save" ELSE "t_load"
    /\ UNCHANGED <<cfgVars, callsLeft, modelVars, ckpt, epochs, val_losses, cur,
                   nextId, written, valParams, evalVars, cmVars>>

\* model.load_state_dict(torch.load(.../model_early_stopping_<argmin>.pkl))
LoadBest ==
    /\ pc = "t_load"
    /\ params' = ckpt[ArgMin(val_losses)]
    /\ pc' = "t_reset"
    /\ UNCHANGED <<cfgVars, callsLeft, training, optSteps, optAttr, ckpt, files, trainVars,
                   evalVars, cmVars>>

\* optimizer.params = torch.optim.AdamW(model.parameters()): a new optimizer is
\* stored in an attribute of the old one, whose own state is not touched
ResetOptimizer ==
    /\ pc = "t_reset"
    /\ optAttr' = [assigned |-> TRUE, steps |-> 0, boundTo |-> params]
    /\ pc' = "t_sep"
    /\ UNCHANGED <<cfgVars, callsLeft, params, training, optSteps, ckpt, files, trainVars,
                   evalVars, cmVars>>

\* the four "\n" writes, then return model
WriteSeparators ==
    /\ pc = "t_sep"
    /\ LET folder == Folder(pretrained, dropout)
           f1 == write_to_file(files, folder, "train_accuracy.txt", <<NL>>)
           f2 == write_to_file(f1, folder, "train_loss.txt", <<NL>>)
           f3 == write_to_file(f2, folder, "val_accuracy.txt", <<NL>>)
       IN  files' = write_to_file(f3, folder, "val_loss.txt", <<NL>>)
    /\ pc' = "t_done"
    /\ UNCHANGED <<cfgVars, callsLeft, modelVars, ckpt, trainVars, evalVars, cmVars>>

-----------------------------------------------------------------------------
(* update_confusion_matrix, accuracy_score, np.argmax, stats.mode *)

Cells == Classes \X Classes
ZeroMatrix == [c \in Cells |-> 0]

\* for i in range(len(predictions)): confusion_matrix[labels[i], predictions[i]] += 1
RECURSIVE UpdateLoop(_, _, _, _)
UpdateLoop(cm, predictions, labs, i) ==
    IF i > Len(predictions) THEN cm
    ELSE UpdateLoop([cm EXCEPT ![<<labs[i], predictions[i]>>] = @ + 1],
                    predictions, labs, i + 1)

UpdateSaturating(cm, predictions, labs) ==
    [c \in Cells |-> IF \E i \in 1 .. Len(predictions) : c = <<labs[i], predictions[i]>>
                        THEN cm[c] + 1 ELSE cm[c]]

update_confusion_matrix(cm, predictions, labs) == UpdateLoop(cm, predictions, labs, 1)

\* np.argmax of one row of logits: the 0-based index of the first maximum
ArgMaxRow(row) ==
    (CHOOSE i \in 1 .. Len(row) :
        /\ \A j \in 1 .. Len(row) : row[j] <= row[i]
        /\ \A j \in 1 .. (i - 1) : row[j] < row[i]) - 1

\* np.argmax(logits, axis=1) for a batch, np.argmax(array, axis=2) for T batches
ArgMaxBatch(logits) == [i \in 1 .. Len(logits) |-> ArgMaxRow(logits[i])]
ArgMaxPasses(passes) == [t \in 1 .. Len(passes) |-> ArgMaxBatch(passes[t])]

\* how often class c occurs in a sequence
Count(s, c) == Cardinality({i \in 1 .. Len(s) : s[i] = c})

\* the most frequent value, the smallest one on ties
ModeOf(s) ==
    CHOOSE c \in Classes :
        /\ \A d \in Classes : Count(s, d) <= Count(s, c)
        /\ \A d \in Classes : d < c => Count(s, d) < Count(s, c)

\* stats.mode(preds)[0] flattened: preds is T x B, the mode is taken down each column
StatsModeAcrossBatch(preds) ==
    [b \in 1 .. Len(preds[1]) |-> ModeOf(preds[1])]

StatsMode(preds) ==
    [b \in 1 .. Len(preds[1]) |-> ModeOf([t \in 1 .. Len(preds) |-> preds[t][b]])]

\* exact fractions <<numerator, denominator>>, kept in lowest terms
RECURSIVE Gcd(_, _)
Gcd(a, b) == IF b = 0 THEN a ELSE Gcd(b, a % b)
Frac(n, d) == LET g == Gcd(n, d) IN <<n \div g, d \div g>>
FracAdd(x, y) == Frac(x[1] * y[2] + y[1] * x[2], x[2] * y[2])
FracDiv(x, n) == Frac(x[1], x[2] * n)
ZeroFrac == <<0, 1>>

\* accuracy_score(labels, predictions): the fraction of equal positions
accuracy_score(labs, predictions) ==
    Frac(Cardinality({i \in 1 .. Len(labs) : labs[i] = predictions[i]}), Len(labs))

\* np.savetxt(f, matrix, fmt='%d', footer="\n"): a line per row, then the footer
MatrixRow(cm, r) == [k |-> "row", v |-> [c \in 1 .. NumLabels |-> cm[<<r, c - 1>>]]]
SaveTxt(cm) ==
    Flatten([r \in 1 .. NumLabels |-> <<MatrixRow(cm, r - 1), NL>>]) \o <<Hash, NL, NL>>

\* f"{value}\n"
FracLine(x) == <<[k |-> "num", v |-> x], NL>>

-----------------------------------------------------------------------------
(* evaluate *)

NoFwd == [kind |-> "none", flags |-> SetMode(FALSE)]

\* rows of logits a forward pass can give for one sample
OneHotRows == {<<1, 0, 0>>, <<0, 1, 0>>, <<0, 0, 1>>}
TiedRows == {<<0, 0, 0>>, <<0, 1, 1>>, <<0, 0, 1>>}
TwoRows == {<<1, 0, 0>>, <<0, 1, 1>>}

\* evaluate(model, dataloader, device, pretrained, dropout, T) is entered
EvalCall(ns) ==
    /\ pc \in Returned
    /\ callsLeft > 0
    /\ callsLeft' = callsLeft - 1
    /\ \E n \in ns : nBatches' = n
    /\ batchIdx' = 0
    /\ labels' = <<>>
    /\ confusion_matrix' = ZeroMatrix
    /\ confusion_matrix_mcd' = ZeroMatrix
    /\ average_acc' = ZeroFrac
    /\ average_acc_mcd' = ZeroFrac
    /\ samples' = <<>>
    /\ predictions_mcd' = <<>>
    /\ fwd' = NoFwd
    /\ turnOnCalls' = 0
    /\ mcdPasses' = 0
    /\ pc' = "e_fetch"
    /\ UNCHANGED <<cfgVars, modelVars, ckpt, files, trainVars, cmVars>>

\* for batch in dataloader: the next batch
FetchBatch(sizes, labelSet) ==
    /\ pc = "e_fetch"
    /\ batchIdx < nBatches
    /\ \E b \in sizes : \E l \in [1 .. b -> labelSet] : labels' = l
    /\ pc' = "e_point"
    /\ UNCHANGED <<cfgVars, callsLeft, modelVars, ckpt, files, trainVars, cmVars,
                   nBatches, batchIdx, confusion_matrix, confusion_matrix_mcd,
                   average_acc, average_acc_mcd, samples, predictions_mcd,
                   fwd, turnOnCalls, mcdPasses>>

\* if dropout > 0
UseMCDAlways(d) == d >= 0

UseMCD(d) == d > 0

\* model.eval(), the point-prediction forward pass, its confusion matrix and accuracy
PointPass(rows) ==
    /\ pc = "e_point"
    /\ training' = SetMode(FALSE)
    /\ fwd' = [kind |-> "point", flags |-> training']
    /\ \E logits \in [1 .. Len(labels) -> rows] :
          LET predictions == ArgMaxBatch(logits) IN
          /\ confusion_matrix' = update_confusion_matrix(confusion_matrix, predictions, labels)
          /\ average_acc' = FracAdd(average_acc, accuracy_score(labels, predictions))
    /\ IF UseMCD(dropout)
          THEN pc' = "e_turnon" /\ batchIdx' = batchIdx
          ELSE pc' = "e_fetch" /\ batchIdx' = batchIdx + 1
    /\ UNCHANGED <<cfgVars, callsLeft, params, optSteps, optAttr, ckpt, files, trainVars,
                   cmVars, nBatches, labels, confusion_matrix_mcd, average_acc_mcd,
                   samples, predictions_mcd, turnOnCalls, mcdPasses>>

\* model = turn_on_dropout(model)
TurnOn ==
    /\ pc = "e_turnon"
    /\ training' = TurnOnDropout(training)
    /\ turnOnCalls' = turnOnCalls + 1
    /\ samples' = <<>>
    /\ pc' = "e_mcd"
    /\ UNCHANGED <<cfgVars, callsLeft, params, optSteps, optAttr, ckpt, files, trainVars,
                   cmVars, nBatches, batchIdx, labels, confusion_matrix,
                   confusion_matrix_mcd, average_acc, average_acc_mcd, predictions_mcd,
                   fwd, mcdPasses>>

\* one forward pass of [model(**batch)[1] ... for sample in range(T)]
McdPass(rows) ==
    /\ pc = "e_mcd"
    /\ T # None
    /\ Len(samples) < T
    /\ \E logits \in [1 .. Len(labels) -> rows] : samples' = Append(samples, logits)
    /\ fwd' = [kind |-> "mcd", flags |-> training]
    /\ mcdPasses' = mcdPasses + 1
    /\ UNCHANGED <<cfgVars, callsLeft, pc, modelVars, ckpt, files, trainVars, cmVars,
                   nBatches, batchIdx, labels, confusion_matrix, confusion_matrix_mcd,
                   average_acc, average_acc_mcd, predictions_mcd, turnOnCalls>>

\* range(None) raises TypeError; np.argmax(np.array([]), axis=2) raises AxisError
McdError ==
    /\ pc = "e_mcd"
    /\ T = None \/ T = 0
    /\ pc' = "error"
    /\ UNCHANGED <<cfgVars, callsLeft, modelVars, ckpt, files, trainVars, evalVars, cmVars>>

\* np.argmax(..., axis=2), stats.mode, the MCD confusion matrix and accuracy
Vote ==
    /\ pc = "e_mcd"
    /\ T # None /\ T > 0
    /\ Len(samples) = T
    /\ predictions_mcd' = StatsMode(ArgMaxPasses(samples))
    /\ confusion_matrix_mcd' =
          update_confusion_matrix(confusion_matrix_mcd, predictions_mcd', labels)
    /\ average_acc_mcd' = FracAdd(average_acc_mcd, accuracy_score(labels, predictions_mcd'))
    /\ batchIdx' = batchIdx + 1
    /\ pc' = "e_fetch"
    /\ UNCHANGED <<cfgVars, callsLeft, modelVars, ckpt, files, trainVars, cmVars,
                   nBatches, labels, confusion_matrix, average_acc, samples,
                   fwd, turnOnCalls, mcdPasses>>

\* after the loop: the accuracy and confusion-matrix files, then return
EvalWrite ==
    /\ pc = "e_fetch"
    /\ batchIdx = nBatches
    /\ LET folder == Folder(pretrained, dropout)
           f1 == write_to_file(files, folder, "test_accuracy.txt",
                               FracLine(FracDiv(average_acc, nBatches)))
           f2 == [f1 EXCEPT ![<<folder, "confusion_matrix.txt">>] =
                      OpenAppend(@, SaveTxt(confusion_matrix))]
           f3 == write_to_file(f2, folder, "test_accuracy_mcd.txt",
                               FracLine(FracDiv(average_acc_mcd, nBatches)))
           f4 == [f3 EXCEPT ![<<folder, "confusion_matrix_mcd.txt">>] =
                      OpenAppend(@, SaveTxt(confusion_matrix_mcd))]
       IN  files' = IF UseMCD(dropout) THEN f4 ELSE f2
    /\ pc' = "e_done"
    /\ UNCHANGED <<cfgVars, callsLeft, modelVars, ckpt, trainVars, evalVars, cmVars>>

-----------------------------------------------------------------------------
(* update_confusion_matrix applied to two batches in both orders *)

BatchesOfLen(n) ==
    {[predictions |-> p, labels |-> l] : p \in [1 .. n -> Classes], l \in [1 .. n -> Classes]}

NoBatch == [predictions |-> <<>>, labels |-> <<>>]

Total(cm) == SumSeq([i \in 1 .. NumLabels * NumLabels |->
                        cm[<<(i - 1) \div NumLabels, (i - 1) % NumLabels>>]])

\* a starting matrix is built up one count at a time
CmSeed ==
    /\ cmPc = "seed"
    /\ Total(cmStart) < MaxStart
    /\ \E c \in Cells : cmStart' = [cmStart EXCEPT ![c] = @ + 1]
    /\ UNCHANGED <<cfgVars, callsLeft, pc, modelVars, ckpt, files, trainVars, evalVars,
                   cmB1, cmB2, cmR1, cmR12, cmR21, cmPc>>

\* two batches, applied first-then-second and second-then-first to copies
CmApply ==
    /\ cmPc = "seed"
    /\ \E n1 \in 0 .. MaxSamples : \E n2 \in 0 .. (MaxSamples - n1) :
          \E b1 \in BatchesOfLen(n1) : \E b2 \in BatchesOfLen(n2) :
            /\ cmB1' = b1
            /\ cmB2' = b2
            /\ cmR1' = update_confusion_matrix(cmStart, b1.predictions, b1.labels)
            /\ cmR12' = update_confusion_matrix(cmR1', b2.predictions, b2.labels)
            /\ cmR21' = update_confusion_matrix(
                            update_confusion_matrix(cmStart, b2.predictions, b2.labels),
                            b1.predictions, b1.labels)
    /\ cmPc' = "applied"
    /\ UNCHANGED <<cfgVars, callsLeft, pc, modelVars, ckpt, files, trainVars, evalVars,
                   cmStart>>

-----------------------------------------------------------------------------
(* Specifications *)

InitModel ==
    /\ params = 0
    /\ optSteps = 0
    /\ optAttr = [assigned |-> FALSE, steps |-> 0, boundTo |-> 0]

InitTrainLocals ==
    /\ epochs = 0 /\ epoch = 0 /\ val_losses = <<>> /\ cur = ZeroCur
    /\ nextId = 1 /\ written = NoWrites /\ valParams = <<>> /\ history = <<>>

InitEvalLocals ==
    /\ nBatches = 0 /\ batchIdx = 0 /\ labels = <<>>
    /\ confusion_matrix = ZeroMatrix /\ confusion_matrix_mcd = ZeroMatrix
    /\ average_acc = ZeroFrac /\ average_acc_mcd = ZeroFrac
    /\ samples = <<>> /\ predictions_mcd = <<>>
    /\ fwd = NoFwd /\ turnOnCalls = 0 /\ mcdPasses = 0

InitCm ==
    /\ cmStart = ZeroMatrix /\ cmB1 = NoBatch /\ cmB2 = NoBatch
    /\ cmR1 = ZeroMatrix /\ cmR12 = ZeroMatrix /\ cmR21 = ZeroMatrix
    /\ cmPc = "seed"

\* one call of train; the saves directory is empty or holds an earlier run's files
InitTrain ==
    /\ pretrained \in Bools /\ dropout \in Dropouts /\ T = None
    /\ callsLeft = 1 /\ pc = "idle"
    /\ InitModel /\ training = SetMode(TRUE)
    /\ ckpt \in {[i \in CkptIdx |-> NoFile], [i \in CkptIdx |-> Stale]}
    /\ files = NoFiles
    /\ InitTrainLocals /\ InitEvalLocals /\ InitCm

NextTrain ==
    \/ TrainCall(1 .. MaxEpochs)
    \/ SaveCheckpoint
    \/ TrainingStep(TrainOuts)
    \/ ValidationStep(ValOuts(MaxLoss))
    \/ WriteEpochLogs
    \/ LoadBest
    \/ ResetOptimizer
    \/ WriteSeparators

SpecTrain == InitTrain /\ [][NextTrain]_vars

\* one call of evaluate on a model in any mode, batches of one sample
InitEval ==
    /\ pretrained = TRUE /\ dropout \in Dropouts /\ T \in {None} \cup (0 .. MaxT)
    /\ callsLeft = 1 /\ pc = "idle"
    /\ InitModel /\ training \in [Layers -> Bools]
    /\ ckpt = [i \in CkptIdx |-> NoFile]
    /\ files = NoFiles
    /\ InitTrainLocals /\ InitEvalLocals /\ InitCm

NextEval ==
    \/ EvalCall(1 .. MaxBatches)
    \/ FetchBatch({1}, Classes)
    \/ PointPass(TiedRows)
    \/ TurnOn
    \/ McdPass(TiedRows)
    \/ McdError
    \/ Vote
    \/ EvalWrite

SpecEval == InitEval /\ [][NextEval]_vars

\* the batch sizes whose T passes give at most MaxVoteCells sampled predictions
VoteSizes == {b \in 1 .. MaxVoteBatch : T \in {None, 0} \/ b * T <= MaxVoteCells}

\* one call of evaluate on one batch of up to MaxVoteBatch samples
InitVote ==
    /\ pretrained = TRUE /\ dropout \in Dropouts /\ T \in {None} \cup (0 .. MaxVoteT)
    /\ callsLeft = 1 /\ pc = "idle"
    /\ InitModel /\ training = SetMode(FALSE)
    /\ ckpt = [i \in CkptIdx |-> NoFile]
    /\ files = NoFiles
    /\ InitTrainLocals /\ InitEvalLocals /\ InitCm

NextVote ==
    \/ EvalCall({1})
    \/ FetchBatch(VoteSizes, {0})
    \/ PointPass({<<1, 0, 0>>})
    \/ TurnOn
    \/ McdPass(OneHotRows)
    \/ McdError
    \/ Vote
    \/ EvalWrite

SpecVote == InitVote /\ [][NextVote]_vars

\* up to MaxCalls calls of train and evaluate, one after the other
InitLog ==
    /\ pretrained \in Bools /\ dropout \in Dropouts /\ T \in {None, 1}
    /\ dropout = 0 => T = None
    /\ callsLeft = MaxCalls /\ pc = "idle"
    /\ InitModel /\ training = SetMode(TRUE)
    /\ ckpt = [i \in CkptIdx |-> NoFile]
    /\ files = NoFiles
    /\ InitTrainLocals /\ InitEvalLocals /\ InitCm

NextLog ==
    \/ TrainCall(1 .. MaxLogEpochs)
    \/ SaveCheckpoint
    \/ TrainingStep(OneTrainOut)
    \/ ValidationStep(TwoValOuts)
    \/ WriteEpochLogs
    \/ LoadBest
    \/ ResetOptimizer
    \/ WriteSeparators
    \/ EvalCall({1})
    \/ FetchBatch({1}, {0})
    \/ PointPass(TwoRows)
    \/ TurnOn
    \/ McdPass(TwoRows)
    \/ McdError
    \/ Vote
    \/ EvalWrite

SpecLog == InitLog /\ [][NextLog]_vars

\* update_confusion_matrix alone
InitCM ==
    /\ pretrained = FALSE /\ dropout = 0 /\ T = None
    /\ callsLeft = 0 /\ pc = "idle"
    /\ InitModel /\ training = SetMode(FALSE)
    /\ ckpt = [i \in CkptIdx |-> NoFile]
    /\ files = NoFiles
    /\ InitTrainLocals /\ InitEvalLocals /\ InitCm

NextCM == CmSeed \/ CmApply

SpecCM == InitCM /\ [][NextCM]_vars

-----------------------------------------------------------------------------
(* Properties *)

TrainPcs == {"t_save", "t_train", "t_val", "t_log", "t_load", "t_reset", "t_sep"}
EvalPcs == {"e_fetch", "e_point", "e_turnon", "e_mcd", "e_done", "error"}

\* k is the first epoch (0-based) whose recorded validation loss is minimal
IsFirstMinimum(k) ==
    /\ k \in 0 .. (Len(val_losses) - 1)
    /\ \A j \in 0 .. (Len(val_losses) - 1) : val_losses[k + 1] <= val_losses[j + 1]
    /\ \A j \in 0 .. (k - 1) : val_losses[j + 1] > val_losses[k + 1]

\* C1: when train returns, E losses are recorded and the model's parameters are
\* the content of the checkpoint file written in this call at the first index of
\* the minimal recorded validation loss.
C1_ReturnsFirstMinimumCheckpoint ==
    pc = "t_done" =>
        /\ Len(val_losses) = epochs
        /\ \E k \in CkptIdx :
              IsFirstMinimum(k) /\ written[k] > 0 /\ params = ckpt[k]

\* a run of three epochs whose minimum is shared by the second and third epoch
C1_Witness ==
    /\ pc = "t_done" /\ epochs = 3 /\ val_losses = <<1, 0, 0>>
    /\ params = ckpt[1] /\ ckpt[1] # ckpt[2]

\* C2: when train returns, the model's parameters are those the model had when
\* the validation pass recorded the minimal validation loss.
C2_ReturnsStateThatWasValidated ==
    pc = "t_done" =>
        \E k \in CkptIdx : IsFirstMinimum(k) /\ params = valParams[k + 1]

\* the number of checkpoint saves of the current call done so far
SavesDone == IF pc = "t_save" THEN epoch ELSE IF pc \in {"t_train", "t_val", "t_log"}
                                               THEN epoch + 1 ELSE epochs

\* C3: at every point of a train call the checkpoints written so far are those
\* of indices 0..k-1, each written once, k being the epochs started; at return
\* k = E, and every written index holds a file.
C3_OneCheckpointPerEpoch ==
    pc \in TrainPcs \cup {"t_done"} =>
        /\ \A i \in CkptIdx : written[i] = IF i < SavesDone THEN 1 ELSE 0
        /\ \A i \in CkptIdx : i < SavesDone => ckpt[i] \notin {NoFile, Stale}
        /\ pc = "t_done" => SavesDone = epochs /\ epochs >= 1

C3_Witness ==
    /\ pc = "t_done" /\ epochs = MaxEpochs
    /\ \A i \in CkptIdx : written[i] = 1

\* C4: when train returns, the state the optimizer accumulated in the training
\* passes is gone.
C4_OptimizerStateReset ==
    pc = "t_done" => optSteps = 0

\* C5: with dropout = 0, whatever T is, evaluate never calls turn_on_dropout,
\* runs no MCD pass, keeps the MCD confusion matrix zero and writes no MCD file.
C5_NoMcdWithoutDropout ==
    (pc \in EvalPcs /\ dropout = 0) =>
        /\ pc \notin {"e_turnon", "e_mcd", "error"}
        /\ turnOnCalls = 0
        /\ mcdPasses = 0
        /\ fwd.kind # "mcd"
        /\ confusion_matrix_mcd = ZeroMatrix
        /\ \A p \in Paths : p[2] \in McdLogs => files[p] = <<>>

C5_Witness ==
    /\ pc = "e_done" /\ dropout = 0 /\ T = None /\ nBatches = 2
    /\ files[<<Folder(pretrained, dropout), "test_accuracy.txt">>] # <<>>

\* C6: every forward pass of evaluate runs with every non-dropout layer in
\* evaluation mode, and once turn_on_dropout has run, exactly the dropout layers
\* have their training flag set.
C6_OnlyDropoutLayersSwitched ==
    /\ fwd.kind # "none" => \A l \in Layers : ~Modules[l].isDropout => ~fwd.flags[l]
    /\ fwd.kind = "mcd" => \A l \in Layers : Modules[l].isDropout => fwd.flags[l]
    /\ pc = "e_mcd" => \A l \in Layers : training[l] = Modules[l].isDropout

C6_Witness ==
    /\ fwd.kind = "mcd" /\ batchIdx = 1 /\ mcdPasses = 2 * T /\ T = 2
    /\ \E l \in Layers : ~fwd.flags[l]

DropoutActive == \E l \in Layers : Modules[l].isDropout /\ training[l]

\* C7: the point-prediction pass of every batch runs with all dropout layers
\* inactive, and outside the MCD sampling of a batch (between batches, after the
\* loop, when evaluate returns) no dropout layer is active.
C7_ActiveDropoutOnlyWhileSampling ==
    /\ fwd.kind = "point" => \A l \in Layers : ~fwd.flags[l]
    /\ (pc \in {"e_fetch", "e_point", "e_done"} /\ batchIdx > 0) => ~DropoutActive

\* the text a train log holds after the calls in history
Metric(file, rec) ==
    IF file = "train_accuracy.txt" THEN rec.train_acc
    ELSE IF file = "train_loss.txt" THEN rec.train_loss
    ELSE IF file = "val_accuracy.txt" THEN rec.val_acc
    ELSE rec.val_loss

RunTokens(file, run) ==
    Flatten([e \in 1 .. Len(run) |-> <<[k |-> "num", v |-> <<Metric(file, run[e])>>], SP>>])

RunComplete(r) == r < Len(history) \/ pc \notin TrainPcs

ExpectedLog(file) ==
    Flatten([r \in 1 .. Len(history) |->
                RunTokens(file, history[r]) \o (IF RunComplete(r) THEN <<NL>> ELSE <<>>)])

LogsGrow == \A p \in Paths : IsPrefix(files[p], files'[p])

LogsHoldRuns ==
    \A f \in TrainLogs : files[<<Folder(pretrained, dropout), f>>] = ExpectedLog(f)

Hits(b, c) == Cardinality({i \in 1 .. Len(b.predictions) : <<b.labels[i], b.predictions[i]>> = c})

\* C9: applying update_confusion_matrix to two batches gives the same matrix in
\* either order, and one call adds to each cell the number of samples whose
\* (true label, predicted label) is that cell.
C9_UpdateCommutes ==
    cmPc = "applied" =>
        /\ cmR12 = cmR21
        /\ \A c \in Cells : cmR1[c] = cmStart[c] + Hits(cmB1, c)
        /\ \A c \in Cells : cmR12[c] = cmStart[c] + Hits(cmB1, c) + Hits(cmB2, c)

\* a non-zero start, two one-sample batches in different off-diagonal cells,
\* the first in the cell the start already counts
C9_Witness ==
    /\ cmPc = "applied" /\ Total(cmStart) = 1
    /\ Len(cmB1.predictions) = 1 /\ Len(cmB2.predictions) = 1
    /\ cmB1.predictions[1] # cmB1.labels[1]
    /\ cmB2 # cmB1
    /\ cmStart[<<cmB1.labels[1], cmB1.predictions[1]>>] = 1
    /\ cmR12[<<cmB1.labels[1], cmB1.predictions[1]>>] = 2

\* the classes sample b got in the T MCD passes
SampledClasses(b) == [t \in 1 .. Len(samples) |-> ArgMaxRow(samples[t][b])]

VoteDone == pc \in {"e_fetch", "e_done"} /\ dropout > 0 /\ batchIdx > 0

\* C10: after the MCD vote of a batch, the prediction of each sample is the
\* class most frequent among that sample's T sampled classes, the lowest such
\* class when several are most frequent.
C10_VoteIsPerSampleMode ==
    VoteDone =>
        /\ Len(samples) = T /\ T >= 1
        /\ Len(predictions_mcd) = Len(labels)
        /\ \A b \in 1 .. Len(labels) :
              LET s == SampledClasses(b)
                  m == predictions_mcd[b]
              IN  /\ m \in Classes
                  /\ \A d \in Classes : Count(s, d) <= Count(s, m)
                  /\ \A d \in Classes : d < m => Count(s, d) < Count(s, m)

\* a batch of two: one sample with a three-way tie, one with a majority for 2
C10_Witness ==
    /\ VoteDone /\ T = 3 /\ Len(labels) = 2
    /\ SampledClasses(1) = <<2, 1, 0>> /\ predictions_mcd[1] = 0
    /\ SampledClasses(2) = <<2, 0, 2>> /\ predictions_mcd[2] = 2

====
